---- MODULE Spec2Model ----
(***************************************************************************)
(* The create-cluster workflow of ecsy (cmd package): resolve or create    *)
(* the network stack, then create the cluster stack with the network       *)
(* outputs as parameters, polling each stack to a terminal state.          *)
(*                                                                         *)
(* The api package (FindNetworkStack, CreateStack, PollUntilCreated) and   *)
(* the CloudFormation backend are not part of the sources at hand; they    *)
(* are modelled from the design document (sections 3, 4.1-4.3, 6).         *)
(***************************************************************************)
EXTENDS Integers, Sequences, FiniteSets, TLC

\* ---------------------------------------------------------------- bounds
\* successful status queries one PollUntilCreated call may make while the
\* stack is still non-terminal
MaxPolls == 2
\* consecutive transient query errors the poller retries
MaxRetries == 1
\* resource events the backend records for one stack while it is in progress
MaxEvents == 1
\* goroutines that call into the embedded assets at the same time
MaxCallers == 2

\* ------------------------------------------------------------ input sets
Clusters == {"demo", "qa"}
InstanceCounts == {3, 12}
\* the command lines tried: --cluster and --count
CommandLines == {[cluster |-> "demo", count |-> 3], [cluster |-> "qa", count |-> 12]}
VpcIds == {"vpc-1"}
SubnetIds == {"subnet-a", "subnet-b"}

\* ---------------------------------------------------------------- values
Nil == "nil"

ABSENT == "ABSENT"
CREATE_IN_PROGRESS == "CREATE_IN_PROGRESS"
CREATE_COMPLETE == "CREATE_COMPLETE"
CREATE_FAILED == "CREATE_FAILED"
ROLLBACK_IN_PROGRESS == "ROLLBACK_IN_PROGRESS"
ROLLBACK_COMPLETE == "ROLLBACK_COMPLETE"
ROLLBACK_FAILED == "ROLLBACK_FAILED"

FailureStates == {CREATE_FAILED, ROLLBACK_COMPLETE, ROLLBACK_FAILED}
TerminalStates == {CREATE_COMPLETE} \cup FailureStates
ExistingStates == {CREATE_IN_PROGRESS, ROLLBACK_IN_PROGRESS} \cup TerminalStates

IsTerminal(s) == s \in TerminalStates

\* ------------------------------------------------------------ stack names
\* variant: the cluster name is put behind the fixed parts
clusterStackName_Suffixed(c) == "ecs-cluster-" \o c

\* cmd: fmt.Sprintf("ecs-%s-cluster", cluster)
clusterStackName(c) == "ecs-" \o c \o "-cluster"

\* api: the fixed name of the network stack of a cluster
NetworkStackName(c) == "network-stack-" \o c

StackNames == {clusterStackName(c) : c \in Clusters} \cup {NetworkStackName(c) : c \in Clusters}

\* ----------------------------------------------------------- strconv.Itoa
DigitChar(d) ==
  CASE d = 0 -> "0" [] d = 1 -> "1" [] d = 2 -> "2" [] d = 3 -> "3" [] d = 4 -> "4"
    [] d = 5 -> "5" [] d = 6 -> "6" [] d = 7 -> "7" [] d = 8 -> "8" [] d = 9 -> "9"

RECURSIVE UItoa(_)
UItoa(n) == IF n < 10 THEN DigitChar(n) ELSE UItoa(n \div 10) \o DigitChar(n % 10)

Itoa(n) == IF n < 0 THEN "-" \o UItoa(0 - n) ELSE UItoa(n)

\* ------------------------------------------------------------- data model
EmptyParams == [k \in {} |-> ""]

\* api.NetworkOutputs{}
ZeroNetworkOutputs == [StackName |-> "", VpcId |-> "", Subnet2Private |-> "", Subnet3Private |-> ""]

\* the outputs a stack under the network stack's name may show once it
\* reached CREATE_COMPLETE; "" stands for an output the stack does not have
NetworkStackOutputs ==
  LET full == [VpcId : VpcIds, Subnet2Private : SubnetIds, Subnet3Private : SubnetIds]
      o == [VpcId |-> "vpc-1", Subnet2Private |-> "subnet-a", Subnet3Private |-> "subnet-b"]
  IN  full \cup {[o EXCEPT !.VpcId = ""], [o EXCEPT !.Subnet2Private = ""], [o EXCEPT !.Subnet3Private = ""]}

HasRequiredOutputs(o) == o.VpcId # "" /\ o.Subnet2Private # "" /\ o.Subnet3Private # ""

NoOutputs == [VpcId |-> "", Subnet2Private |-> "", Subnet3Private |-> ""]

\* a StackEvent: its position in the stack's event list identifies it;
\* isStack tells the stack's own status events from its resources' events
StackEvent(id, ts, isStack) == [id |-> id, ts |-> ts, isStack |-> isStack]

AbsentStack ==
  [status |-> ABSENT, outputs |-> NoOutputs, params |-> EmptyParams, disableRollback |-> FALSE,
   events |-> <<>>]

\* variant: the rollback preference is not forwarded
CreateStackContext_RollbackDropped(params, rollbackOff) == [Params |-> params, DisableRollback |-> FALSE]

\* api.CreateStackContext
CreateStackContext(params, rollbackOff) == [Params |-> params, DisableRollback |-> rollbackOff]

\* flag defaults of the create-cluster command
keyName == "default"
instanceType == "t2.micro"
dockerUsername == ""
dockerPassword == ""
dockerEmail == ""
logspoutTarget == ""
datadogKey == ""
authorizedKeys == ""

VARIABLES
  cluster,          \* --cluster flag
  instanceCount,    \* --count flag
  disableRollback,  \* --disable-rollback flag
  stacks,           \* the provisioning backend: stack name -> stack
  pc,               \* position of the workflow
  err,              \* the err variable of the running function
  outputs,          \* getOrCreateNetworkStack: outputs
  network,          \* ConfigureCreateCluster action: network
  stackName,        \* the stack name handed to the running CreateStack / PollUntilCreated
  ret,              \* what the action returned ("none" while it runs)
  pollObs,          \* statuses the running PollUntilCreated has observed
  retries,          \* consecutive query errors of the running PollUntilCreated
  mark,             \* high-water mark of the running PollUntilCreated
  delivered,        \* events the running PollUntilCreated has handed to the observer
  sleeping,         \* the running PollUntilCreated waits for its next query
  callLog,          \* the api / SDK calls issued so far, in order
  initialStacks,    \* the backend as the workflow found it
  escData,          \* templates: the asset table, path -> file
  callers,          \* templates: the goroutines inside prepare / FSByte / Open
  decodes           \* templates: how often each file's once.Do body has run

vars == <<cluster, instanceCount, disableRollback, stacks, pc, err, outputs, network,
          stackName, ret, pollObs, retries, mark, delivered, sleeping, callLog, initialStacks,
         escData, callers, decodes>>

\* the state of package templates
assetVars == <<escData, callers, decodes>>

Call(op, name, res, ctx) ==
  [op |-> op, name |-> name, res |-> res, params |-> ctx.Params, disableRollback |-> ctx.DisableRollback]

NoCtx == CreateStackContext(EmptyParams, FALSE)

\* PollUntilCreated(name, ...) is called; its result is filled in on return
EnterPoll(log, name) == Append(log, Call("PollUntilCreated", name, "running", NoCtx))

LeavePoll(log, res) == [log EXCEPT ![Len(log)].res = res]

\* ---------------------------------------------------------- Stack Resolver
\* api.FindNetworkStack: the stack is looked up under its fixed name; an absent
\* stack, a stack that is not in the success terminal state and a stack that
\* lacks a required output are different errors; the outputs value carries
\* the stack name in every case.
FindNetworkStack(st, clusterName) ==
  LET name == NetworkStackName(clusterName)
      s == st[name]
  IN  IF s.status = ABSENT
        THEN [outputs |-> [ZeroNetworkOutputs EXCEPT !.StackName = name], err |-> "NotFound"]
      ELSE IF s.status # CREATE_COMPLETE
        THEN [outputs |-> [ZeroNetworkOutputs EXCEPT !.StackName = name], err |-> "IncompatibleStack"]
      ELSE IF ~HasRequiredOutputs(s.outputs)
        THEN [outputs |-> [ZeroNetworkOutputs EXCEPT !.StackName = name], err |-> "MissingOutput"]
      ELSE [outputs |-> [StackName |-> name, VpcId |-> s.outputs.VpcId,
                         Subnet2Private |-> s.outputs.Subnet2Private,
                         Subnet3Private |-> s.outputs.Subnet3Private],
            err |-> Nil]

\* ----------------------------------------------------------- Stack Creator
\* the backend's synchronous answers to createStack: a name collision is
\* always rejected, any request may be rejected (bad parameters, quota)
CreateStackAnswers(st, name) ==
  IF st[name].status # ABSENT THEN {"AlreadyExists"} ELSE {Nil, "Rejected"}

CreateStackEffect(st, name, ctx, answer) ==
  IF answer = Nil
    THEN [st EXCEPT ![name] = [status |-> CREATE_IN_PROGRESS, outputs |-> NoOutputs,
                               params |-> ctx.Params, disableRollback |-> ctx.DisableRollback,
                               events |-> <<StackEvent(1, 1, TRUE)>>]]
    ELSE st

\* ------------------------------------------------------------ Stack Poller
\* variant: the poller gives up as soon as the rollback starts
PollVerdict_RollbackStartIsFailure(status) ==
  IF status = CREATE_IN_PROGRESS THEN "continue"
  ELSE IF status = CREATE_COMPLETE THEN Nil
  ELSE "ProvisioningFailed"

\* variant: a finished rollback counts as a created stack
PollVerdict_RollbackIsSuccess(status) ==
  IF ~IsTerminal(status) THEN "continue"
  ELSE IF status \in {CREATE_COMPLETE, ROLLBACK_COMPLETE} THEN Nil
  ELSE "ProvisioningFailed"

\* what PollUntilCreated does with an observed status: keep polling, or
\* return nil / a provisioning failure
PollVerdict(status) ==
  IF ~IsTerminal(status) THEN "continue"
  ELSE IF status = CREATE_COMPLETE THEN Nil
  ELSE "ProvisioningFailed"

\* listStackEvents: the backend hands out a stack's events newest first
RECURSIVE Reverse(_)
Reverse(seq) == IF seq = <<>> THEN <<>> ELSE Append(Reverse(Tail(seq)), Head(seq))

ListStackEvents(st, name) == Reverse(st[name].events)

\* variant: an event that carries the mark's timestamp counts as new
NewerThan_Inclusive(batch, hwm) == SelectSeq(batch, LAMBDA e : e.ts >= hwm)

\* the events of a batch that are newer than the high-water mark
NewerThan(batch, hwm) == SelectSeq(batch, LAMBDA e : e.ts > hwm)

\* an event put into an oldest-first list, behind the events of its timestamp
RECURSIVE InsertByTime(_, _)
InsertByTime(sorted, e) ==
  IF sorted = <<>> THEN <<e>>
  ELSE IF Head(sorted).ts <= e.ts THEN <<Head(sorted)>> \o InsertByTime(Tail(sorted), e)
  ELSE <<e>> \o sorted

\* a newest-first batch sorted oldest first; events of one timestamp keep
\* the order in which the backend recorded them
RECURSIVE OldestFirst(_)
OldestFirst(batch) ==
  IF batch = <<>> THEN <<>>
  ELSE InsertByTime(OldestFirst(Tail(batch)), Head(batch))

\* the events one poll delivers to the observer, in delivery order
ToDeliver(batch, hwm) == OldestFirst(NewerThan(batch, hwm))

\* the high-water mark after a list of events has been delivered
AdvanceMark(hwm, evs) == IF evs = <<>> THEN hwm ELSE evs[Len(evs)].ts

\* variant: one retry more than the bound
PollRetryAllowed_OneMore(n) == n <= MaxRetries

\* a failed query is retried while fewer than MaxRetries consecutive
\* queries have failed
PollRetryAllowed(n) == n < MaxRetries

\* ------------------------------------------------- the workflow's branches
\* variants: the result of the first FindNetworkStack is not looked at
FoundNetworkStack_Always(e) == TRUE

FoundNetworkStack_Never(e) == FALSE

\* variant: the error of ECS.CreateCluster is returned
EcsCreateFailed_Checked(e) == e # Nil

\* action: _, err := svc.ECS.CreateCluster(...) is followed by no test of
\* err; the next statement assigns err anew
EcsCreateFailed(e) == FALSE

\* getOrCreateNetworkStack: if err == nil { return outputs, nil }
FoundNetworkStack(e) == e = Nil

\* variant: a rejected network CreateStack is not returned
NetworkCreateFailed_Ignored(e) == FALSE

\* getOrCreateNetworkStack: CreateStack ... if err != nil { return NetworkOutputs{}, err }
NetworkCreateFailed(e) == e # Nil

\* variant: a failed network poll is not returned
NetworkPollFailed_Ignored(e) == FALSE

\* getOrCreateNetworkStack: PollUntilCreated ... if err != nil { return NetworkOutputs{}, err }
NetworkPollFailed(e) == e # Nil

\* getOrCreateNetworkStack: second FindNetworkStack ... if err != nil { return NetworkOutputs{}, err }
NetworkResolveFailed(e) == e # Nil

\* variant: the outputs of the resolution before the create are kept
ResolvedAgain_Stale(old, new) == old

\* getOrCreateNetworkStack: outputs, err = api.FindNetworkStack(...) after
\* the poll overwrites outputs, which is what is returned
ResolvedAgain(old, new) == new

\* variant: the error of getOrCreateNetworkStack is not returned
NetworkStackFailed_Ignored(e) == FALSE

\* action: network, err := getOrCreateNetworkStack(...); if err != nil { return err }
NetworkStackFailed(e) == e # Nil

\* action: CreateStack ... if err != nil { return err }
ClusterCreateFailed(e) == e # Nil

\* variant: the network stack is deleted when the cluster stack failed
StacksOnClusterFailure_Rollback(st, netName) == [st EXCEPT ![netName] = AbsentStack]

\* action: if err != nil { return err } after the cluster poll: the stacks
\* are left as they are
StacksOnClusterFailure(st, netName) == st

\* variant: a failed cluster poll is not returned
ClusterPollFailed_Ignored(e) == FALSE

\* action: PollUntilCreated ... if err != nil { return err }
ClusterPollFailed(e) == e # Nil

\* variant: the two private subnets are handed over in the other order
ClusterParams_Swapped(net, c, count) ==
  [VpcId               |-> net.VpcId,
   VpcPrivateSubnet1Id |-> net.Subnet3Private,
   VpcPrivateSubnet2Id |-> net.Subnet2Private,
   KeyName             |-> keyName,
   ECSCluster          |-> c,
   InstanceType        |-> instanceType,
   DesiredCapacity     |-> Itoa(count),
   DockerHubUsername   |-> dockerUsername,
   DockerHubPassword   |-> dockerPassword,
   DockerHubEmail      |-> dockerEmail,
   LogspoutTarget      |-> logspoutTarget,
   DatadogApiKey       |-> datadogKey,
   AuthorizedUsersUrl  |-> authorizedKeys]

\* action: the Params map of the cluster stack's CreateStackContext
ClusterParams(net, c, count) ==
  [VpcId               |-> net.VpcId,
   VpcPrivateSubnet1Id |-> net.Subnet2Private,
   VpcPrivateSubnet2Id |-> net.Subnet3Private,
   KeyName             |-> keyName,
   ECSCluster          |-> c,
   InstanceType        |-> instanceType,
   DesiredCapacity     |-> Itoa(count),
   DockerHubUsername   |-> dockerUsername,
   DockerHubPassword   |-> dockerPassword,
   DockerHubEmail      |-> dockerEmail,
   LogspoutTarget      |-> logspoutTarget,
   DatadogApiKey       |-> datadogKey,
   AuthorizedUsersUrl  |-> authorizedKeys]

\* ------------------------------------------------------- package templates
\* a path is the sequence of its segments behind the leading "/"
TemplatesBuild == <<"templates", "build">>

\* path.Clean of a rooted path: "." goes, ".." takes the segment before it
\* with it
RECURSIVE CleanFrom(_, _)
CleanFrom(done, rest) ==
  IF rest = <<>> THEN done
  ELSE IF Head(rest) = "." THEN CleanFrom(done, Tail(rest))
  ELSE IF Head(rest) = ".."
    THEN CleanFrom(IF done = <<>> THEN <<>> ELSE SubSeq(done, 1, Len(done) - 1),
                   Tail(rest))
  ELSE CleanFrom(Append(done, Head(rest)), Tail(rest))

Clean(name) == CleanFrom(<<>>, name)

\* path.Base: the last segment as it is written, "/" for the root
Base(name) == IF name = <<>> THEN "/" ELSE name[Len(name)]

ErrNotExist == "os.ErrNotExist"
ErrHeader == "gzip: invalid header"
ErrUnexpectedEOF == "unexpected EOF"

\* the content a file was embedded from, in chunks
AssetContent(k) ==
  IF k = TemplatesBuild \o <<"ecs-service.json">> THEN <<"service", "template">>
  ELSE IF k = TemplatesBuild \o <<"network-stack.json">> THEN <<"network", "template">>
  ELSE <<>>

\* the compressed field: base64 of a gzip stream of the content
Gzip(content) == [magic |-> "gzip", payload |-> content, complete |-> TRUE]

\* the compressed field as generated, and the two ways it can be damaged:
\* not a gzip stream at all, or a gzip stream that ends early
Encodings(content) ==
  { Gzip(content),
    [magic |-> "junk", payload |-> content, complete |-> TRUE],
    [magic |-> "gzip", payload |-> SubSeq(content, 1, Len(content) - 1),
     complete |-> FALSE] }

\* gzip.NewReader reads the header
GzipNewReader(c) == IF c.magic = "gzip" THEN Nil ELSE ErrHeader

\* ioutil.ReadAll returns what it could read and the error that stopped it
ReadAll(c) == [data |-> c.payload, err |-> IF c.complete THEN Nil ELSE ErrUnexpectedEOF]

\* an _escFile of the table before its first use
EscFile(compressed, size, isDir) ==
  [compressed |-> compressed, size |-> size, isDir |-> isDir,
   data |-> <<>>, name |-> "", once |-> "new"]

AssetPaths ==
  { TemplatesBuild \o <<"ecs-service.json">>,
    TemplatesBuild \o <<"ecs-stack.json">>,
    TemplatesBuild \o <<"network-stack.json">>,
    <<>>, <<"templates">>, TemplatesBuild }

\* _escData, with the compressed field of network-stack.json as given
EscData(networkCompressed) ==
  [k \in AssetPaths |->
     IF k = TemplatesBuild \o <<"ecs-service.json">>
       THEN EscFile(Gzip(AssetContent(k)), 8296, FALSE)
     ELSE IF k = TemplatesBuild \o <<"ecs-stack.json">>
       THEN EscFile(Gzip(<<>>), 0, FALSE)
     ELSE IF k = TemplatesBuild \o <<"network-stack.json">>
       THEN EscFile(networkCompressed, 4166, FALSE)
     ELSE EscFile(Gzip(<<>>), 0, TRUE)]

\* the names the callers ask for: a file, the same file spelled with a
\* trailing ".", the empty file, and a name that is not in the table
AssetNames ==
  { TemplatesBuild \o <<"network-stack.json">>,
    TemplatesBuild \o <<"network-stack.json", ".">>,
    TemplatesBuild \o <<"ecs-stack.json">>,
    TemplatesBuild \o <<"missing.json">> }

AssetOps == {"FSByte", "Open"}

Callers == 1..MaxCallers

NoFile == [data |-> <<>>, name |-> ""]

IdleCaller == [pc |-> "idle", op |-> "", name |-> <<>>, err |-> Nil, res |-> NoFile]

\* package templates as the program starts
AssetsInit(networkCompressed) ==
  /\ escData = EscData(networkCompressed)
  /\ callers = [t \in Callers |-> IdleCaller]
  /\ decodes = [k \in AssetPaths |-> 0]

\* ------------------------------------------------------------------- Init
\* The backend may already hold the network stack and the cluster stack of
\* the cluster in any state.
InitialNetworkStacks ==
  {AbsentStack}
  \cup {[AbsentStack EXCEPT !.status = s] : s \in ExistingStates \ {CREATE_COMPLETE}}
  \cup {[AbsentStack EXCEPT !.status = CREATE_COMPLETE, !.outputs = o] : o \in NetworkStackOutputs}

InitialClusterStacks == {AbsentStack, [AbsentStack EXCEPT !.status = CREATE_COMPLETE]}

WorkflowInit ==
  /\ \E cl \in CommandLines :
       /\ cl.cluster \in Clusters /\ cl.count \in InstanceCounts
       /\ cluster = cl.cluster
       /\ instanceCount = cl.count
  /\ disableRollback \in BOOLEAN
  /\ \E n \in InitialNetworkStacks, k \in InitialClusterStacks :
       stacks = [x \in StackNames |->
                   IF x = NetworkStackName(cluster) THEN n
                   ELSE IF x = clusterStackName(cluster) THEN k
                   ELSE AbsentStack]
  /\ initialStacks = stacks
  /\ pc = "start"
  /\ err = Nil
  /\ outputs = ZeroNetworkOutputs
  /\ network = ZeroNetworkOutputs
  /\ stackName = ""
  /\ ret = "none"
  /\ pollObs = <<>>
  /\ retries = 0
  /\ mark = 0
  /\ delivered = <<>>
  /\ sleeping = FALSE
  /\ callLog = <<>>

Init ==
  /\ WorkflowInit
  /\ AssetsInit(Gzip(AssetContent(TemplatesBuild \o <<"network-stack.json">>)))

\* the workflow is not run; the network template's compressed field is
\* as generated or damaged
AssetInit ==
  /\ WorkflowInit
  /\ cluster = "demo"
  /\ ~disableRollback
  /\ stacks = [x \in StackNames |-> AbsentStack]
  /\ \E c \in Encodings(AssetContent(TemplatesBuild \o <<"network-stack.json">>)) :
       AssetsInit(c)

\* ---------------------------------------------------------------- actions
\* what the action does once getOrCreateNetworkStack has returned (net, e)
ReturnFromNetwork(net, e) ==
  /\ network' = net
  /\ err' = e
  /\ IF NetworkStackFailed(e)
       THEN /\ ret' = e
            /\ pc' = "done"
            /\ stackName' = stackName
       ELSE /\ ret' = ret
            /\ pc' = "createCluster"
            /\ stackName' = clusterStackName(cluster)

\* svc.ECS.CreateCluster: the error is assigned and then overwritten
EcsCreateCluster ==
  /\ pc = "start"
  /\ \E e \in {Nil, "EcsError"} :
       /\ err' = e
       /\ callLog' = Append(callLog, Call("ECS.CreateCluster", cluster, e, NoCtx))
       /\ IF EcsCreateFailed(e)
            THEN pc' = "done" /\ ret' = e
            ELSE pc' = "findNetwork" /\ ret' = ret
  /\ UNCHANGED <<cluster, instanceCount, disableRollback, initialStacks, stacks, outputs, network,
                 stackName, pollObs, retries, mark, delivered, sleeping>>
  /\ UNCHANGED assetVars

\* getOrCreateNetworkStack: the first FindNetworkStack and its branch
FindNetwork ==
  /\ pc = "findNetwork"
  /\ LET r == FindNetworkStack(stacks, cluster)
     IN  /\ outputs' = r.outputs
         /\ callLog' = Append(callLog, Call("FindNetworkStack", r.outputs.StackName, r.err, NoCtx))
         /\ IF FoundNetworkStack(r.err)
              THEN ReturnFromNetwork(r.outputs, Nil)
              ELSE /\ err' = r.err
                   /\ pc' = "createNetwork"
                   /\ UNCHANGED <<network, ret, stackName>>
  /\ UNCHANGED <<cluster, instanceCount, disableRollback, initialStacks, stacks, pollObs, retries, mark, delivered, sleeping>>
  /\ UNCHANGED assetVars

\* getOrCreateNetworkStack: CreateStack(outputs.StackName, NetworkStack(), ctx)
CreateNetworkStack ==
  /\ pc = "createNetwork"
  /\ LET name == outputs.StackName
         ctx == CreateStackContext(EmptyParams, disableRollback)
     IN  \E a \in CreateStackAnswers(stacks, name) :
           /\ stacks' = CreateStackEffect(stacks, name, ctx, a)
           /\ IF NetworkCreateFailed(a)
                THEN /\ ReturnFromNetwork(ZeroNetworkOutputs, a)
                     /\ callLog' = Append(callLog, Call("CreateStack", name, a, ctx))
                     /\ UNCHANGED <<pollObs, retries, mark, delivered, sleeping>>
                ELSE /\ err' = a
                     /\ pc' = "pollNetwork"
                     /\ stackName' = name
                     /\ callLog' = EnterPoll(Append(callLog, Call("CreateStack", name, a, ctx)), name)
                     /\ pollObs' = <<>>
                     /\ retries' = 0
                     /\ mark' = 0
                     /\ delivered' = <<>>
                     /\ sleeping' = FALSE
                     /\ UNCHANGED <<network, ret>>
  /\ UNCHANGED <<cluster, instanceCount, disableRollback, initialStacks, outputs>>
  /\ UNCHANGED assetVars

\* getOrCreateNetworkStack: what follows the return of PollUntilCreated,
\* the second FindNetworkStack included when the poll succeeded
AfterNetworkPoll(e) ==
  IF NetworkPollFailed(e)
    THEN /\ ReturnFromNetwork(ZeroNetworkOutputs, e)
         /\ UNCHANGED <<outputs, stacks>>
    ELSE /\ err' = e
         /\ pc' = "refindNetwork"
         /\ UNCHANGED <<outputs, network, ret, stackName, stacks>>

\* action: what follows the return of PollUntilCreated for the cluster stack
AfterClusterPoll(e) ==
  /\ err' = e
  /\ pc' = "done"
  /\ ret' = IF ClusterPollFailed(e) THEN e ELSE Nil
  /\ stacks' = IF ClusterPollFailed(e)
                 THEN StacksOnClusterFailure(stacks, NetworkStackName(cluster))
                 ELSE stacks
  /\ UNCHANGED <<outputs, network, stackName>>

AfterPoll(e) == IF pc = "pollNetwork" THEN AfterNetworkPoll(e) ELSE AfterClusterPoll(e)

\* the observations PollUntilCreated has made, the first MaxPolls
\* non-terminal ones and the terminal one
Observe(obs, status) ==
  IF Len(obs) < MaxPolls \/ IsTerminal(status) THEN Append(obs, status) ELSE obs

\* PollUntilCreated, one query of the loop: the backend answers with the
\* stack's status and its events; the events newer than the mark are
\* delivered oldest first; a terminal status ends the loop
PollQuery ==
  /\ pc \in {"pollNetwork", "pollCluster"}
  /\ ~sleeping
  /\ LET status == stacks[stackName].status
         new == ToDeliver(ListStackEvents(stacks, stackName), mark)
         v == PollVerdict(status)
     IN  /\ pollObs' = Observe(pollObs, status)
         /\ retries' = 0
         /\ delivered' = delivered \o new
         /\ mark' = AdvanceMark(mark, new)
         /\ IF v = "continue"
              THEN /\ sleeping' = TRUE
                   /\ UNCHANGED <<pc, err, outputs, network, stackName, ret, callLog, stacks>>
              ELSE /\ sleeping' = FALSE
                   /\ callLog' = LeavePoll(callLog, v)
                   /\ AfterPoll(v)
  /\ UNCHANGED <<cluster, instanceCount, disableRollback, initialStacks>>
  /\ UNCHANGED assetVars

\* PollUntilCreated, one query of the loop that fails in transit: retried
\* after a pause a bounded number of times, then surfaced
PollQueryError ==
  /\ pc \in {"pollNetwork", "pollCluster"}
  /\ ~sleeping
  /\ IF PollRetryAllowed(retries)
       THEN /\ retries' = retries + 1
            /\ sleeping' = TRUE
            /\ UNCHANGED <<pc, err, outputs, network, stackName, ret, callLog, stacks>>
       ELSE /\ retries' = retries
            /\ sleeping' = FALSE
            /\ callLog' = LeavePoll(callLog, "QueryError")
            /\ AfterPoll("QueryError")
  /\ UNCHANGED <<cluster, instanceCount, disableRollback, initialStacks, pollObs, mark, delivered>>
  /\ UNCHANGED assetVars

\* PollUntilCreated, the pause between two queries
PollSleep ==
  /\ pc \in {"pollNetwork", "pollCluster"}
  /\ sleeping
  /\ sleeping' = FALSE
  /\ UNCHANGED <<cluster, instanceCount, disableRollback, initialStacks, stacks, pc, err, outputs,
                 network, stackName, ret, pollObs, retries, mark, delivered, callLog>>
  /\ UNCHANGED assetVars

\* getOrCreateNetworkStack: the FindNetworkStack after the poll
RefindNetwork ==
  /\ pc = "refindNetwork"
  /\ LET r == FindNetworkStack(stacks, cluster)
     IN  /\ callLog' = Append(callLog, Call("FindNetworkStack", r.outputs.StackName, r.err, NoCtx))
         /\ outputs' = ResolvedAgain(outputs, r.outputs)
         /\ IF NetworkResolveFailed(r.err)
              THEN ReturnFromNetwork(ZeroNetworkOutputs, r.err)
              ELSE ReturnFromNetwork(ResolvedAgain(outputs, r.outputs), Nil)
  /\ UNCHANGED <<cluster, instanceCount, disableRollback, initialStacks, stacks, pollObs, retries, mark, delivered, sleeping>>
  /\ UNCHANGED assetVars

\* action: CreateStack(stackName, EcsStack(), ctx) with the network outputs
CreateClusterStack ==
  /\ pc = "createCluster"
  /\ LET ctx == CreateStackContext(ClusterParams(network, cluster, instanceCount), disableRollback)
     IN  \E a \in CreateStackAnswers(stacks, stackName) :
           /\ stacks' = CreateStackEffect(stacks, stackName, ctx, a)
           /\ err' = a
           /\ IF ClusterCreateFailed(a)
                THEN /\ ret' = a
                     /\ pc' = "done"
                     /\ callLog' = Append(callLog, Call("CreateStack", stackName, a, ctx))
                     /\ UNCHANGED <<pollObs, retries, mark, delivered, sleeping>>
                ELSE /\ pc' = "pollCluster"
                     /\ callLog' = EnterPoll(Append(callLog, Call("CreateStack", stackName, a, ctx)), stackName)
                     /\ pollObs' = <<>>
                     /\ retries' = 0
                     /\ mark' = 0
                     /\ delivered' = <<>>
                     /\ sleeping' = FALSE
                     /\ UNCHANGED ret
  /\ UNCHANGED <<cluster, instanceCount, disableRollback, initialStacks, outputs, network, stackName>>
  /\ UNCHANGED assetVars

\* ------------------------------------------------------------ the backend
\* the backend alone moves a stack through its states; a network stack
\* gets its outputs when it reaches CREATE_COMPLETE
BackendNext(name, s) ==
  IF s.status = CREATE_IN_PROGRESS
    THEN {[s EXCEPT !.status = CREATE_FAILED], [s EXCEPT !.status = ROLLBACK_IN_PROGRESS]}
         \cup (IF name \in {NetworkStackName(c) : c \in Clusters}
                 THEN {[s EXCEPT !.status = CREATE_COMPLETE, !.outputs = o] : o \in NetworkStackOutputs}
                 ELSE {[s EXCEPT !.status = CREATE_COMPLETE]})
  ELSE IF s.status = ROLLBACK_IN_PROGRESS
    THEN {[s EXCEPT !.status = ROLLBACK_COMPLETE], [s EXCEPT !.status = ROLLBACK_FAILED]}
  ELSE {}

\* the timestamp of a stack's next event: not before its last event; a
\* resource's event may carry the timestamp of the event before it
NextTimestamps(evs, isStack) ==
  IF evs = <<>> THEN {1}
  ELSE IF isStack THEN {evs[Len(evs)].ts + 1}
  ELSE {evs[Len(evs)].ts, evs[Len(evs)].ts + 1}

\* the backend records an event at the end of the stack's event list
RecordEvent(s, isStack) ==
  {[s EXCEPT !.events = Append(@, StackEvent(Len(@) + 1, t, isStack))] :
     t \in NextTimestamps(s.events, isStack)}

ResourceEvents(s) == Cardinality({i \in DOMAIN s.events : ~s.events[i].isStack})

\* a status change of a stack, recorded as an event of the stack
BackendProgress ==
  /\ \E name \in StackNames : \E s \in BackendNext(name, stacks[name]) :
       \E s2 \in RecordEvent(s, TRUE) :
         stacks' = [stacks EXCEPT ![name] = s2]
  /\ UNCHANGED <<cluster, instanceCount, disableRollback, initialStacks, pc, err, outputs, network,
                 stackName, ret, pollObs, retries, mark, delivered, sleeping, callLog>>
  /\ UNCHANGED assetVars

\* a status change of a resource of a stack in creation, recorded as an event
BackendEvent ==
  /\ \E name \in StackNames :
       /\ stacks[name].status = CREATE_IN_PROGRESS
       /\ stacks[name].events # <<>>
       /\ ResourceEvents(stacks[name]) < MaxEvents
       /\ \E s2 \in RecordEvent(stacks[name], FALSE) :
            stacks' = [stacks EXCEPT ![name] = s2]
  /\ UNCHANGED <<cluster, instanceCount, disableRollback, initialStacks, pc, err, outputs, network,
                 stackName, ret, pollObs, retries, mark, delivered, sleeping, callLog>>
  /\ UNCHANGED assetVars

Next ==
  \/ EcsCreateCluster
  \/ FindNetwork
  \/ CreateNetworkStack
  \/ PollQuery
  \/ PollQueryError
  \/ PollSleep
  \/ RefindNetwork
  \/ CreateClusterStack
  \/ BackendProgress
  \/ BackendEvent

Spec == Init /\ [][Next]_vars

\* the steps the workflow takes by itself: every call it makes returns
\* and its pauses end
WorkflowNext ==
  \/ EcsCreateCluster
  \/ FindNetwork
  \/ CreateNetworkStack
  \/ PollQuery
  \/ PollSleep
  \/ RefindNetwork
  \/ CreateClusterStack

\* the workflow keeps running; the backend may leave a stack as it is
RunSpec == Spec /\ WF_vars(WorkflowNext)

\* the workflow keeps running and every stack in progress moves on
LiveSpec == Spec /\ WF_vars(WorkflowNext) /\ WF_vars(BackendProgress)

\* ------------------------------------------- package templates: actions
workflowVars == <<cluster, instanceCount, disableRollback, stacks, pc, err, outputs,
                  network, stackName, ret, pollObs, retries, mark, delivered, sleeping,
                  callLog, initialStacks>>

Present(name) == Clean(name) \in DOMAIN escData

\* a goroutine calls FSByte(false, name) or _escStatic.Open(name)
Enter(t) ==
  /\ callers[t].pc = "idle"
  /\ \E op \in AssetOps, name \in AssetNames :
       callers' = [callers EXCEPT ![t] = [IdleCaller EXCEPT !.pc = "prepare",
                                                             !.op = op, !.name = name]]
  /\ UNCHANGED <<escData, decodes>>
  /\ UNCHANGED workflowVars

\* prepare: the lookup of path.Clean(name)
prepare(t) ==
  /\ callers[t].pc = "prepare"
  /\ IF Present(callers[t].name)
       THEN callers' = [callers EXCEPT ![t].pc = "once"]
       ELSE callers' = [callers EXCEPT ![t].pc = "returned", ![t].err = ErrNotExist]
  /\ UNCHANGED <<escData, decodes>>
  /\ UNCHANGED workflowVars

\* f.once.Do: the first caller runs the body, a caller that comes while
\* the body runs waits for it, a caller that comes after it skips it
onceDo(t) ==
  /\ callers[t].pc = "once"
  /\ LET k == Clean(callers[t].name)
     IN  \/ /\ escData[k].once = "new"
            /\ escData' = [escData EXCEPT ![k].once = "running"]
            /\ decodes' = [decodes EXCEPT ![k] = @ + 1]
            /\ callers' = [callers EXCEPT ![t].pc = "body"]
         \/ /\ escData[k].once = "done"
            /\ callers' = [callers EXCEPT ![t].pc = "afterOnce"]
            /\ UNCHANGED <<escData, decodes>>
  /\ UNCHANGED workflowVars

\* the body: f.name = path.Base(name); if f.size == 0 { return }
setName(t) ==
  /\ callers[t].pc = "body"
  /\ LET k == Clean(callers[t].name)
     IN  IF escData[k].size = 0
           THEN /\ escData' = [escData EXCEPT ![k].name = Base(callers[t].name),
                                              ![k].once = "done"]
                /\ callers' = [callers EXCEPT ![t].pc = "afterOnce"]
           ELSE /\ escData' = [escData EXCEPT ![k].name = Base(callers[t].name)]
                /\ callers' = [callers EXCEPT ![t].pc = "newReader"]
  /\ UNCHANGED decodes
  /\ UNCHANGED workflowVars

\* the body: gr, err = gzip.NewReader(b64); if err != nil { return }
newReader(t) ==
  /\ callers[t].pc = "newReader"
  /\ LET k == Clean(callers[t].name)
         e == GzipNewReader(escData[k].compressed)
     IN  IF e # Nil
           THEN /\ escData' = [escData EXCEPT ![k].once = "done"]
                /\ callers' = [callers EXCEPT ![t].pc = "afterOnce", ![t].err = e]
           ELSE /\ callers' = [callers EXCEPT ![t].pc = "readAll"]
                /\ UNCHANGED escData
  /\ UNCHANGED decodes
  /\ UNCHANGED workflowVars

\* the body: f.data, err = ioutil.ReadAll(gr)
readAll(t) ==
  /\ callers[t].pc = "readAll"
  /\ LET k == Clean(callers[t].name)
         r == ReadAll(escData[k].compressed)
     IN  /\ escData' = [escData EXCEPT ![k].data = r.data, ![k].once = "done"]
         /\ callers' = [callers EXCEPT ![t].pc = "afterOnce", ![t].err = r.err]
  /\ UNCHANGED decodes
  /\ UNCHANGED workflowVars

\* prepare: if err != nil { return nil, err }; return f, nil. FSByte
\* returns f.data and Open a file over f.data with the name f.name
prepareReturn(t) ==
  /\ callers[t].pc = "afterOnce"
  /\ LET k == Clean(callers[t].name)
     IN  IF callers[t].err # Nil
           THEN callers' = [callers EXCEPT ![t].pc = "returned"]
           ELSE callers' = [callers EXCEPT ![t].pc = "returned",
                                           ![t].res = [data |-> escData[k].data,
                                                       name |-> escData[k].name]]
  /\ UNCHANGED <<escData, decodes>>
  /\ UNCHANGED workflowVars

\* the goroutine has its answer and may call again
Leave(t) ==
  /\ callers[t].pc = "returned"
  /\ callers' = [callers EXCEPT ![t] = IdleCaller]
  /\ UNCHANGED <<escData, decodes>>
  /\ UNCHANGED workflowVars

AssetNext ==
  \E t \in Callers :
    \/ Enter(t)
    \/ prepare(t)
    \/ onceDo(t)
    \/ setName(t)
    \/ newReader(t)
    \/ readAll(t)
    \/ prepareReturn(t)
    \/ Leave(t)

AssetSpec == AssetInit /\ [][AssetNext]_vars

\* ------------------------------------------------------------- the claims
NetName == NetworkStackName(cluster)
ClName == clusterStackName(cluster)

Returned == pc = "done"

IsCreate(c, name) == c.op = "CreateStack" /\ c.name = name
IsPoll(c, name) == c.op = "PollUntilCreated" /\ c.name = name
IsFind(c) == c.op = "FindNetworkStack"

\* the stack names of the CreateStack calls issued so far, in order
RECURSIVE CreatedNames(_)
CreatedNames(log) ==
  IF log = <<>> THEN <<>>
  ELSE LET rest == CreatedNames(SubSeq(log, 1, Len(log) - 1))
           c == log[Len(log)]
       IN  IF c.op = "CreateStack" THEN Append(rest, c.name) ELSE rest

NetworkCreatedByRun == \E i \in DOMAIN callLog : IsCreate(callLog[i], NetName) /\ callLog[i].res = Nil

\* C1: a CreateStack call for the cluster stack is issued (or about to be
\* issued) only when the network stack is in CREATE_COMPLETE and an earlier
\* FindNetworkStack call has returned its outputs without error.
C1_ClusterCreateAfterNetwork ==
  /\ \A i \in DOMAIN callLog :
       IsCreate(callLog[i], ClName) =>
         /\ stacks[NetName].status = CREATE_COMPLETE
         /\ \E j \in 1..(i - 1) : IsFind(callLog[j]) /\ callLog[j].res = Nil
  /\ pc = "createCluster" =>
         /\ stacks[NetName].status = CREATE_COMPLETE
         /\ \E j \in DOMAIN callLog : IsFind(callLog[j]) /\ callLog[j].res = Nil

C1_Witness ==
  /\ NetworkCreatedByRun
  /\ \E i \in DOMAIN callLog : IsCreate(callLog[i], ClName)

\* C2: when the network stack already exists in CREATE_COMPLETE with its
\* outputs, getOrCreateNetworkStack returns exactly these outputs and no
\* CreateStack and no PollUntilCreated call is ever made for the network stack.
ReusableAtStart ==
  /\ initialStacks[NetName].status = CREATE_COMPLETE
  /\ HasRequiredOutputs(initialStacks[NetName].outputs)

C3_OneNetworkThenOneCluster ==
  (initialStacks[NetName].status = ABSENT /\ Returned /\ ret = Nil) =>
    CreatedNames(callLog) = <<NetName, ClName>>

C3_Witness == initialStacks[NetName].status = ABSENT /\ Returned /\ ret = Nil

\* C4: when the network stack is in CREATE_FAILED, no CreateStack call for
\* the cluster stack has been made or is about to be made, and the workflow,
\* once it has returned, has returned an error.
C4_FailedNetworkStopsWorkflow ==
  stacks[NetName].status = CREATE_FAILED =>
    /\ \A i \in DOMAIN callLog : ~IsCreate(callLog[i], ClName)
    /\ pc \notin {"createCluster", "pollCluster"}
    /\ Returned => ret \notin {Nil, "none"}

C4_Witness ==
  /\ stacks[NetName].status = CREATE_FAILED
  /\ NetworkCreatedByRun
  /\ Returned
  /\ ret = "ProvisioningFailed"

\* C5 (as claimed): when the first FindNetworkStack reports an existing
\* network stack that is not in the success terminal state, no CreateStack
\* call is made for the network stack and the workflow returns that error.
C5_IncompatibleStackIsFatal ==
  (\E i \in DOMAIN callLog : IsFind(callLog[i]) /\ callLog[i].res = "IncompatibleStack") =>
    /\ \A i \in DOMAIN callLog : ~IsCreate(callLog[i], NetName)
    /\ Returned => ret = "IncompatibleStack"

\* C6: the parameters of the cluster stack's CreateStack call carry the
\* network stack's VPC id and its first and second private subnet verbatim.
C6_ClusterParamsCarryNetworkOutputs ==
  \A i \in DOMAIN callLog :
    IsCreate(callLog[i], ClName) =>
      /\ callLog[i].params.VpcId = stacks[NetName].outputs.VpcId
      /\ callLog[i].params.VpcPrivateSubnet1Id = stacks[NetName].outputs.Subnet2Private
      /\ callLog[i].params.VpcPrivateSubnet2Id = stacks[NetName].outputs.Subnet3Private
      /\ callLog[i].params.VpcId = network.VpcId
      /\ callLog[i].params.VpcPrivateSubnet1Id = network.Subnet2Private
      /\ callLog[i].params.VpcPrivateSubnet2Id = network.Subnet3Private

C6_Witness ==
  \E i \in DOMAIN callLog :
    /\ IsCreate(callLog[i], ClName)
    /\ callLog[i].params.VpcPrivateSubnet1Id # callLog[i].params.VpcPrivateSubnet2Id
    /\ callLog[i].params.VpcId = "vpc-1"

\* C7: a CreateStack call the backend rejects is the last call of the run:
\* the workflow has returned that error, with no poll, no second CreateStack
\* and no other call after it.
C7_RejectedCreateIsReturned ==
  \A i \in DOMAIN callLog :
    (callLog[i].op = "CreateStack" /\ callLog[i].res # Nil) =>
      /\ i = Len(callLog)
      /\ Returned
      /\ ret = callLog[i].res

C7_Witness ==
  /\ NetworkCreatedByRun
  /\ \E i \in DOMAIN callLog : IsCreate(callLog[i], ClName) /\ callLog[i].res = "Rejected"

\* C8: a PollUntilCreated call that returned an error, and a FindNetworkStack
\* call after the network poll that returned an error, is the last call of
\* the run, and the workflow has returned that error.
IsFailedStep(i) ==
  \/ callLog[i].op = "PollUntilCreated" /\ callLog[i].res \notin {Nil, "running"}
  \/ /\ IsFind(callLog[i])
     /\ callLog[i].res # Nil
     /\ \E j \in 1..(i - 1) : IsPoll(callLog[j], NetName)

C8_ErrorShortCircuits ==
  \A i \in DOMAIN callLog :
    IsFailedStep(i) =>
      /\ i = Len(callLog)
      /\ Returned
      /\ ret = callLog[i].res

C8_Witness ==
  /\ Returned
  /\ ret = "MissingOutput"
  /\ \E i \in DOMAIN callLog : IsPoll(callLog[i], NetName) /\ callLog[i].res = Nil

\* C9: the workflow returns nil only when its last two calls are the
\* accepted CreateStack of the cluster stack and the PollUntilCreated of
\* the cluster stack that returned nil, the stack being in CREATE_COMPLETE;
\* while that poll runs nothing has been returned.
C9_SuccessMeansClusterComplete ==
  /\ ret = Nil =>
       /\ Len(callLog) >= 2
       /\ IsCreate(callLog[Len(callLog) - 1], ClName)
       /\ callLog[Len(callLog) - 1].res = Nil
       /\ IsPoll(callLog[Len(callLog)], ClName)
       /\ callLog[Len(callLog)].res = Nil
       /\ stacks[ClName].status = CREATE_COMPLETE
  /\ pc = "pollCluster" => ret = "none"

C9_Witness == Returned /\ ret = Nil /\ stacks[ClName].status = CREATE_COMPLETE

\* C10: a PollUntilCreated call queries no more once it has observed a
\* terminal status; it returns at that observation, nil if and only if the
\* status is CREATE_COMPLETE and a provisioning failure for CREATE_FAILED,
\* ROLLBACK_COMPLETE and ROLLBACK_FAILED.
LastPollResult ==
  LET polls == {i \in DOMAIN callLog : callLog[i].op = "PollUntilCreated"}
  IN  IF polls = {} THEN "none"
      ELSE callLog[CHOOSE i \in polls : \A j \in polls : j <= i].res

C10_PollerStopsAtTerminal ==
  /\ \A i \in 1..(Len(pollObs) - 1) : ~IsTerminal(pollObs[i])
  /\ (pollObs # <<>> /\ IsTerminal(pollObs[Len(pollObs)])) =>
       /\ pc \notin {"pollNetwork", "pollCluster"}
       /\ LastPollResult = Nil <=> pollObs[Len(pollObs)] = CREATE_COMPLETE
       /\ pollObs[Len(pollObs)] \in FailureStates => LastPollResult = "ProvisioningFailed"
  /\ LastPollResult = Nil => (pollObs # <<>> /\ pollObs[Len(pollObs)] = CREATE_COMPLETE)

C10_Witness ==
  /\ Len(pollObs) = 3
  /\ pollObs[1] = CREATE_IN_PROGRESS
  /\ pollObs[2] = ROLLBACK_IN_PROGRESS
  /\ pollObs[3] = ROLLBACK_COMPLETE
  /\ LastPollResult = "ProvisioningFailed"

Polling == pc \in {"pollNetwork", "pollCluster"}

\* the stack of the latest PollUntilCreated call
LastPollName ==
  LET polls == {i \in DOMAIN callLog : callLog[i].op = "PollUntilCreated"}
  IN  callLog[CHOOSE i \in polls : \A j \in polls : j <= i].name

\* C11: the observer gets every event of the polled stack at most once and
\* in non-decreasing timestamp order, each poll response holding all the
\* stack's events so far, newest first.
C11_EachEventOnceInOrder ==
  /\ \A i, j \in DOMAIN delivered :
       i < j => (delivered[i].id # delivered[j].id /\ delivered[i].ts <= delivered[j].ts)
  /\ \A i \in DOMAIN delivered :
       /\ delivered[i].id \in DOMAIN stacks[LastPollName].events
       /\ stacks[LastPollName].events[delivered[i].id] = delivered[i]

C11_Witness ==
  /\ Len(pollObs) >= 2
  /\ Len(delivered) >= 3
  /\ \E i \in DOMAIN delivered : i > 1 /\ delivered[i].ts = delivered[i - 1].ts

\* C12 (as claimed): the workflow cannot block forever in a poll, also
\* when the stack never leaves CREATE_IN_PROGRESS: it returns in the end.
C12_PollCannotBlockForever == <>Returned

\* C13: a failed query is retried at most MaxRetries times in a row; a retry
\* leaves the high-water mark and the delivered events alone, the mark never
\* falls during a poll, no event is delivered twice, and a failed query
\* after MaxRetries retries ends the poll with the query error.
C13_Retry ==
  /\ retries <= MaxRetries
  /\ LastPollResult = "QueryError" => retries = MaxRetries
  /\ \A i, j \in DOMAIN delivered : i < j => delivered[i].id # delivered[j].id

C13_Step ==
  /\ PollQueryError => (mark' = mark /\ delivered' = delivered)
  /\ Polling => mark' >= mark
  /\ (PollQueryError /\ retries = MaxRetries) => (pc' \notin {"pollNetwork", "pollCluster"} /\ ret' # Nil)
  /\ (PollQueryError /\ retries < MaxRetries) => (pc' = pc /\ retries' = retries + 1)

C13_BoundedRetryKeepsMark == []C13_Retry /\ [][C13_Step]_vars

C13_Witness ==
  /\ Polling
  /\ retries = MaxRetries
  /\ delivered # <<>>
  /\ Len(stacks[stackName].events) > Len(delivered)

\* C14: when the run created the network stack, the CreateStack of the
\* cluster stack follows at once on the nil return of the network poll and
\* the nil return of the FindNetworkStack after it, and its parameters are
\* the outputs the stack has then, not those of the first resolution.
C14_ParamsFromResolveAfterPoll ==
  /\ \A i, k \in DOMAIN callLog :
       (IsCreate(callLog[i], NetName) /\ callLog[i].res = Nil /\ IsCreate(callLog[k], ClName)) =>
         /\ k = i + 3
         /\ IsPoll(callLog[i + 1], NetName) /\ callLog[i + 1].res = Nil
         /\ IsFind(callLog[i + 2]) /\ callLog[i + 2].res = Nil
         /\ callLog[k].params.VpcId = stacks[NetName].outputs.VpcId
         /\ callLog[k].params.VpcPrivateSubnet1Id = stacks[NetName].outputs.Subnet2Private
         /\ callLog[k].params.VpcPrivateSubnet2Id = stacks[NetName].outputs.Subnet3Private
         /\ callLog[k].params.VpcId # ""
         /\ callLog[k].params.VpcPrivateSubnet1Id # ""
         /\ callLog[k].params.VpcPrivateSubnet2Id # ""
  /\ (pc = "createCluster" /\ NetworkCreatedByRun) =>
         /\ network = FindNetworkStack(stacks, cluster).outputs
         /\ HasRequiredOutputs(network)

C14_Witness ==
  /\ NetworkCreatedByRun
  /\ \E k \in DOMAIN callLog : IsCreate(callLog[k], ClName) /\ callLog[k].params.VpcId = "vpc-1"

\* C15: the workflow issues only create, resolve and poll calls; no step
\* removes a stack or changes the parameters or the rollback setting of an
\* existing stack, and a step of the workflow changes the backend only by
\* creating a stack that did not exist.
WorkflowOps == {"ECS.CreateCluster", "FindNetworkStack", "CreateStack", "PollUntilCreated"}

C15_Step ==
  /\ \A n \in StackNames :
       stacks[n].status # ABSENT =>
         /\ stacks'[n].status # ABSENT
         /\ stacks'[n].params = stacks[n].params
         /\ stacks'[n].disableRollback = stacks[n].disableRollback
  /\ (pc' # pc \/ callLog' # callLog) =>
       \A n \in StackNames :
         stacks'[n] # stacks[n] => (stacks[n].status = ABSENT /\ stacks'[n].status = CREATE_IN_PROGRESS)

C15_OnlyCreates == [](\A i \in DOMAIN callLog : callLog[i].op \in WorkflowOps) /\ [][C15_Step]_vars

C15_Witness ==
  /\ Returned
  /\ ret = "ProvisioningFailed"
  /\ IsPoll(callLog[Len(callLog)], ClName)
  /\ NetworkCreatedByRun
  /\ stacks[NetName].status = CREATE_COMPLETE
  /\ stacks[ClName].status \in FailureStates

\* C16: every CreateStack call carries the --disable-rollback flag as it
\* was given, the backend records it with the stack, and the network
\* stack's CreateStack call carries an empty parameter map.
C16_RollbackForwarded ==
  \A i \in DOMAIN callLog :
    callLog[i].op = "CreateStack" =>
      /\ callLog[i].disableRollback = disableRollback
      /\ IsCreate(callLog[i], NetName) => callLog[i].params = EmptyParams
      /\ IsCreate(callLog[i], ClName) => callLog[i].params # EmptyParams
      /\ callLog[i].res = Nil => stacks[callLog[i].name].disableRollback = disableRollback

C16_Witness ==
  /\ disableRollback
  /\ \E i, k \in DOMAIN callLog :
       /\ IsCreate(callLog[i], NetName) /\ callLog[i].res = Nil
       /\ IsCreate(callLog[k], ClName) /\ callLog[k].res = Nil

\* C17: the workflow returns in the end, every call returning and
\* every stack in progress moving on; a PollUntilCreated call that returned
\* nil or a provisioning failure left its stack in a terminal status, and
\* only the query error of the exhausted retries returns from a poll
\* whose stack is still in progress.
PollReturned ==
  /\ callLog # <<>>
  /\ callLog[Len(callLog)].op = "PollUntilCreated"
  /\ callLog[Len(callLog)].res # "running"

PolledStackTerminal == IsTerminal(stacks[callLog[Len(callLog)].name].status)

C17_BlocksUntilTerminalOrQueryError ==
  /\ <>Returned
  /\ []((PollReturned /\ callLog[Len(callLog)].res # "QueryError") => PolledStackTerminal)

C17_Witness ==
  /\ Returned
  /\ PollReturned
  /\ callLog[Len(callLog)].res = "ProvisioningFailed"
  /\ stacks[ClName].status = ROLLBACK_FAILED

\* C17 (as claimed): the workflow returns in the end and never returns
\* from a poll whose stack is still in CREATE_IN_PROGRESS or
\* ROLLBACK_IN_PROGRESS.
C17_NeverReturnsWhileInProgress ==
  /\ <>Returned
  /\ []((Returned /\ PollReturned) => PolledStackTerminal)

\* C18: the cluster stack is called "ecs-<cluster>-cluster"; every
\* PollUntilCreated call follows a CreateStack call of the same stack name;
\* the network stack is created under the name the FindNetworkStack before
\* it queried, which is the name its failed resolution returned.
ExpectedClusterStackName == IF cluster = "demo" THEN "ecs-demo-cluster" ELSE "ecs-qa-cluster"

C18_StackNameCorrelates ==
  /\ cluster \in {"demo", "qa"}
  /\ \A i \in DOMAIN callLog :
       /\ callLog[i].op = "PollUntilCreated" =>
            /\ i > 1
            /\ callLog[i - 1].op = "CreateStack"
            /\ callLog[i - 1].name = callLog[i].name
            /\ (callLog[i].res = "running" => stackName = callLog[i].name)
       /\ (callLog[i].op = "CreateStack" /\ ~IsCreate(callLog[i], NetName)) =>
            callLog[i].name = ExpectedClusterStackName
       /\ IsCreate(callLog[i], NetName) =>
            /\ i > 1
            /\ IsFind(callLog[i - 1])
            /\ callLog[i - 1].res # Nil
            /\ callLog[i - 1].name = callLog[i].name
            /\ outputs.StackName = callLog[i].name \/ Returned

C18_Witness ==
  /\ \E i \in DOMAIN callLog : IsPoll(callLog[i], NetName)
  /\ \E i \in DOMAIN callLog : IsPoll(callLog[i], ClName)

\* C19: when ECS.CreateCluster returned an error, the workflow has not
\* returned that error: it went on to FindNetworkStack, and whatever it
\* returns comes from a later step.
EcsFailed == callLog # <<>> /\ callLog[1].res = "EcsError"

C19_EcsErrorDiscarded ==
  /\ ret # "EcsError"
  /\ EcsFailed =>
       /\ pc # "start"
       /\ Returned => (Len(callLog) >= 2 /\ IsFind(callLog[2]))
       /\ pc = "findNetwork" => Len(callLog) = 1

C19_Witness == EcsFailed /\ Returned /\ ret = Nil /\ stacks[ClName].status = CREATE_COMPLETE

\* C20 (as claimed): whatever the interleaving of the FSByte / Open calls,
\* the once.Do body of a file runs at most once; a call that returned
\* without error has the file's whole decoded content and a name; a name
\* that is not in the table returns os.ErrNotExist, and a call with such a
\* name changes neither the table nor the count of decodes.
ReturnedOk(t) == callers[t].pc = "returned" /\ callers[t].err = Nil

AbsentCallStep(t) ==
  /\ callers[t].pc # "idle"
  /\ ~Present(callers[t].name)
  /\ callers'[t] # callers[t]

DecodeFails(k) ==
  /\ escData[k].size # 0
  /\ \/ GzipNewReader(escData[k].compressed) # Nil
     \/ ReadAll(escData[k].compressed).err # Nil

C21_FailedDecodeErrorsEveryCall ==
  \A t \in Callers :
    ( /\ callers[t].pc = "returned"
      /\ Present(callers[t].name)
      /\ DecodeFails(Clean(callers[t].name)) )
    => callers[t].err # Nil

====
